---- MODULE Spec2Model ----
(***************************************************************************)
(* Conway's Game of Life as implemented in src/life.py: a board stored as  *)
(* a dictionary keyed by (x,y), updated in place by a mark pass and a      *)
(* commit pass, driven by the game loop of life().                         *)
(***************************************************************************)
EXTENDS Integers, Sequences, FiniteSets, TLC

(* ------------------------------ bounds --------------------------------- *)
\* largest value of dimx or dimy
MaxDim == 3
\* largest number of cells of a board handed to update_board on its own
MaxCells == 9
\* largest number of cells of a board created inside life()
LifeMaxCells == 6
\* largest number of cells of a board updated in two separate copies
PairMaxCells == 6
\* largest iteration_limit passed to life()
MaxLimit == 2
\* largest elapsed time (clock ticks) measured around one update_board call
MaxElapsed == 1
\* number of update_board calls made on each of two copies
MaxCalls == 2

(* ------------------------- program constants --------------------------- *)
DEAD == 0
ALIVE == 1
WILL_BORN == 2
WILL_DIE == -1

\* OCCUPANCY = 0.25, in hundredths
OCCUPANCY == 25

\* values random.random() can return (it lies in [0,1)), in hundredths
RandomValues == {0, 24, 25, 99}

\* keys of COLORS
COLORS == {0, 1}

\* a neighbour list in which one diagonal is entered twice and one is missing
NEIGHBORS_Repeated == << <<0, 1>>, <<0, -1>>, <<1, 0>>, <<-1, 0>>,
                         <<1, 1>>, <<-1, 1>>, <<-1, -1>>, <<1, 1>> >>

NEIGHBORS == << <<0, 1>>, <<0, -1>>, <<1, 0>>, <<-1, 0>>,
                <<1, 1>>, <<-1, 1>>, <<-1, -1>>, <<1, -1>> >>

\* the event types pygame.event.get() can deliver
QUIT == "QUIT"
EventTypes == {QUIT, "KEYDOWN"}

(* ------------------------------ helpers -------------------------------- *)
\* a range that runs one too far
RangeInclusive(n) == 0 .. n

\* range(n)
Range(n) == 0 .. (n - 1)

\* the board with no keys (board = {})
EmptyBoard == [c \in {} |-> DEAD]

\* a count that forgets the cells marked for death
OccupiedAliveOnly(s) == s = ALIVE

\* in [ALIVE, WILL_DIE]
Occupied(s) == s \in {ALIVE, WILL_DIE}

\* a survival test that accepts 2 neighbours only
NotTwo(n) == n # 2

\* not neighbors in [2, 3]
NotTwoOrThree(n) == ~(n \in {2, 3})

\* the loop of count_neighbors over NEIGHBORS[i..], adding to the score
RECURSIVE ScoreFrom(_, _, _)
ScoreFrom(i, c, b) ==
    IF i > Len(NEIGHBORS) THEN 0
    ELSE LET n == NEIGHBORS[i]
             k == <<c[1] + n[1], c[2] + n[2]>>
         IN  (IF k \in DOMAIN b /\ Occupied(b[k]) THEN 1 ELSE 0)
             + ScoreFrom(i + 1, c, b)

\* a count on a torus: a coordinate off one edge comes back in at the other
RECURSIVE ScoreFromWrap(_, _, _)
ScoreFromWrap(i, c, b) ==
    IF i > Len(NEIGHBORS) THEN 0
    ELSE LET n == NEIGHBORS[i]
             w == Cardinality({d[1] : d \in DOMAIN b})
             h == Cardinality({d[2] : d \in DOMAIN b})
             k == <<(c[1] + n[1]) % w, (c[2] + n[2]) % h>>
         IN  (IF k \in DOMAIN b /\ Occupied(b[k]) THEN 1 ELSE 0)
             + ScoreFromWrap(i + 1, c, b)

count_neighbors_wrap(c, b) == ScoreFromWrap(1, c, b)

count_neighbors(c, b) == ScoreFrom(1, c, b)

\* a single-pass update: the decision is written as the final state at once
MarkStepInPlace(b, c) ==
    LET neighbors == count_neighbors(c, b)
    IN  IF b[c] = DEAD /\ neighbors = 3 THEN [b EXCEPT ![c] = ALIVE]
        ELSE IF b[c] = ALIVE /\ NotTwoOrThree(neighbors)
             THEN [b EXCEPT ![c] = DEAD]
             ELSE b

\* the body of the first loop of update_board for one cell
MarkStep(b, c) ==
    LET neighbors == count_neighbors(c, b)
    IN  IF b[c] = DEAD /\ neighbors = 3 THEN [b EXCEPT ![c] = WILL_BORN]
        ELSE IF b[c] = ALIVE /\ NotTwoOrThree(neighbors)
             THEN [b EXCEPT ![c] = WILL_DIE]
             ELSE b

\* a commit that forgets the cells marked for death
CommitStepBornOnly(b, c) ==
    IF b[c] = WILL_BORN THEN [b EXCEPT ![c] = ALIVE] ELSE b

\* a commit that takes every cell not marked for birth to be dying
CommitStepElseDead(b, c) ==
    IF b[c] = WILL_BORN THEN [b EXCEPT ![c] = ALIVE]
    ELSE [b EXCEPT ![c] = DEAD]

\* the body of the second loop of update_board for one cell
CommitStep(b, c) ==
    LET b1 == IF b[c] = WILL_BORN THEN [b EXCEPT ![c] = ALIVE] ELSE b
    IN  IF b1[c] = WILL_DIE THEN [b1 EXCEPT ![c] = DEAD] ELSE b1

\* a comparison that also accepts r equal to the occupancy
RandomCellInclusive(r, occ) == IF r <= occ THEN ALIVE ELSE DEAD

\* the state make_random_board stores when random.random() returns r, occ
\* being the value of the global OCCUPANCY (in hundredths)
RandomCell(r, occ) == IF r < occ THEN ALIVE ELSE DEAD

\* the key the loops "for x in range(dimx): for y in range(dimy)" of
\* make_random_board store next, b being the board built so far
NextKey(dx, dy, b) ==
    LET rest == (Range(dx) \X Range(dy)) \ DOMAIN b
    IN  CHOOSE c \in rest :
            \A k \in rest : c[1] < k[1] \/ (c[1] = k[1] /\ c[2] <= k[2])

\* the loops of make_random_board have stored every key
AllKeysStored(dx, dy, b) == (Range(dx) \X Range(dy)) \ DOMAIN b = {}

\* a loop test with < instead of <=
LoopCondStrict(q, cnt, limit) == ~q /\ cnt < limit

\* a loop test that forgets quit_game
LoopCondNoQuit(q, cnt, limit) == cnt <= limit

\* the test of the while loop of life()
LoopCond(q, cnt, limit) == ~q /\ cnt <= limit

(* ------------------------------- state --------------------------------- *)
VARIABLES
    pc,               \* position in life() / update_board / count_neighbors
    dimx, dimy,       \* arguments of life() and make_random_board
    iteration_limit,  \* argument of life()
    occupancy,        \* value of the global OCCUPANCY, in hundredths
    board,            \* the board dictionary
    todo,             \* cells the running for-loop has not visited yet
    counter, timing,  \* locals of life()
    quit_game,        \* local of life()
    events,           \* event types waiting in the pygame event queue
    result,           \* what life() returned: <<timing, counter>> for timing/counter
    entry,            \* the board as it was when update_board was entered
    updates,          \* number of update_board calls made so far
    quit_at,          \* number of updates done when the poll saw QUIT (-1: not seen)
    cell, score,      \* argument and result of a count_neighbors call
    board2, todo2, pc2, entry2   \* a second, separate copy of the board and its update

vars == <<pc, dimx, dimy, iteration_limit, occupancy, board, todo, counter, timing,
          quit_game, events, result, entry, updates, quit_at, cell, score,
          board2, todo2, pc2, entry2>>

lifeVars == <<dimx, dimy, iteration_limit, occupancy, counter, timing, quit_game, events,
              result, quit_at>>
countVars == <<cell, score>>
copyVars == <<board2, todo2, pc2, entry2>>

NoCell == <<-1, -1>>

(* --------------------------- update_board ------------------------------ *)
\* update_board(board) is entered: the first loop starts
EnterUpdate ==
    /\ entry' = board
    /\ todo' = DOMAIN board
    /\ updates' = updates + 1
    /\ pc' = "mark"

\* one iteration of "for cell in board" (first loop), in any order
MarkCell ==
    /\ pc = "mark"
    /\ \E c \in todo :
         /\ board' = MarkStep(board, c)
         /\ todo' = todo \ {c}
    /\ UNCHANGED <<pc, entry, updates>>
    /\ UNCHANGED <<lifeVars, countVars, copyVars>>

\* the first loop is exhausted, the second starts
MarkDone ==
    /\ pc = "mark"
    /\ todo = {}
    /\ pc' = "commit"
    /\ todo' = DOMAIN board
    /\ UNCHANGED <<board, entry, updates>>
    /\ UNCHANGED <<lifeVars, countVars, copyVars>>

\* one iteration of "for cell in board" (second loop), in any order
CommitCell ==
    /\ pc = "commit"
    /\ \E c \in todo :
         /\ board' = CommitStep(board, c)
         /\ todo' = todo \ {c}
    /\ UNCHANGED <<pc, entry, updates>>
    /\ UNCHANGED <<lifeVars, countVars, copyVars>>

\* the second loop is exhausted: update_board returns
UpdateReturn ==
    /\ pc = "commit"
    /\ todo = {}
    /\ pc' = "updated"
    /\ UNCHANGED <<board, todo, entry, updates>>
    /\ UNCHANGED <<lifeVars, countVars, copyVars>>

(* ----------------------- boards of the model --------------------------- *)
Shapes(maxCells) ==
    {d \in (1 .. MaxDim) \X (1 .. MaxDim) : d[1] * d[2] <= maxCells}

Rect(dx, dy) == Range(dx) \X Range(dy)

\* boards between two update_board calls
LiveBoards(maxCells) ==
    UNION {[Rect(d[1], d[2]) -> {DEAD, ALIVE}] : d \in Shapes(maxCells)}

Idle ==
    /\ dimx = 0 /\ dimy = 0 /\ iteration_limit = 0 /\ occupancy = OCCUPANCY
    /\ counter = 0 /\ timing = 0 /\ quit_game = FALSE /\ events = {}
    /\ result = <<>> /\ quit_at = -1

NoCount == cell = NoCell /\ score = 0

NoCopy == board2 = EmptyBoard /\ todo2 = {} /\ pc2 = "none" /\ entry2 = EmptyBoard

(* ---------------- update_board called on any board --------------------- *)
InitUpdate ==
    /\ board \in LiveBoards(MaxCells)
    /\ entry = board
    /\ todo = DOMAIN board
    /\ updates = 1
    /\ pc = "mark"
    /\ Idle /\ NoCount /\ NoCopy

NextUpdate == MarkCell \/ MarkDone \/ CommitCell \/ UpdateReturn

SpecUpdate == InitUpdate /\ [][NextUpdate]_vars

(* -------------------------------- life() ------------------------------ *)
\* life(dimx, dimy, iteration_limit) is called
Init ==
    /\ pc = "init"
    /\ dimx \in 0 .. MaxDim
    /\ dimy \in 0 .. MaxDim
    /\ dimx * dimy <= LifeMaxCells
    /\ iteration_limit \in -1 .. MaxLimit
    /\ occupancy = OCCUPANCY
    /\ board = EmptyBoard /\ entry = EmptyBoard /\ todo = {}
    /\ counter = 0 /\ timing = 0 /\ quit_game = FALSE
    /\ events = {}
    /\ result = <<>>
    /\ updates = 0 /\ quit_at = -1
    /\ NoCount /\ NoCopy

\* screen, bg, clock = init(dimx, dimy): pygame only, no state of the game
PygameInit ==
    /\ pc = "init"
    /\ pc' = "make"
    /\ UNCHANGED <<board, todo, entry, updates>>
    /\ UNCHANGED <<lifeVars, countVars, copyVars>>

\* make_random_board: one iteration of the inner loop
MakeCell ==
    /\ pc = "make"
    /\ ~AllKeysStored(dimx, dimy, board)
    /\ \E r \in RandomValues :
         board' = (NextKey(dimx, dimy, board) :> RandomCell(r, occupancy))
                      @@ board
    /\ UNCHANGED <<pc, todo, entry, updates>>
    /\ UNCHANGED <<lifeVars, countVars, copyVars>>

\* make_random_board returns; quit_game = False; counter, timing = 0, 0
MakeReturn ==
    /\ pc = "make"
    /\ AllKeysStored(dimx, dimy, board)
    /\ quit_game' = FALSE
    /\ counter' = 0
    /\ timing' = 0
    /\ pc' = "head"
    /\ UNCHANGED <<board, todo, entry, updates>>
    /\ UNCHANGED <<dimx, dimy, iteration_limit, occupancy, events, result, quit_at>>
    /\ UNCHANGED <<countVars, copyVars>>

\* the while test holds: clock.tick, start = time(), update_board(board)
LoopEnter ==
    /\ pc = "head"
    /\ LoopCond(quit_game, counter, iteration_limit)
    /\ EnterUpdate
    /\ UNCHANGED board
    /\ UNCHANGED <<lifeVars, countVars, copyVars>>

\* the while test fails
LoopExit ==
    /\ pc = "head"
    /\ ~LoopCond(quit_game, counter, iteration_limit)
    /\ pc' = "ret"
    /\ UNCHANGED <<board, todo, entry, updates>>
    /\ UNCHANGED <<lifeVars, countVars, copyVars>>

\* timing += time() - start
Accumulate ==
    /\ pc = "updated"
    /\ \E dt \in 0 .. MaxElapsed : timing' = timing + dt
    /\ pc' = "draw"
    /\ UNCHANGED <<board, todo, entry, updates>>
    /\ UNCHANGED <<dimx, dimy, iteration_limit, occupancy, counter, quit_game, events,
                   result, quit_at>>
    /\ UNCHANGED <<countVars, copyVars>>

\* a draw_board that clears every cell once it has drawn it
DrawBoardClearing ==
    /\ pc = "draw"
    /\ pc' = IF \A c \in DOMAIN board : board[c] \in COLORS
             THEN "poll" ELSE "KeyError"
    /\ board' = [c \in DOMAIN board |-> DEAD]
    /\ UNCHANGED <<todo, entry, updates>>
    /\ UNCHANGED <<lifeVars, countVars, copyVars>>

\* draw_board(board, bg), screen.blit, display.flip: COLORS[board[cell]] is
\* looked up for every cell
DrawBoard ==
    /\ pc = "draw"
    /\ pc' = IF \A c \in DOMAIN board : board[c] \in COLORS
             THEN "poll" ELSE "KeyError"
    /\ UNCHANGED <<board, todo, entry, updates>>
    /\ UNCHANGED <<lifeVars, countVars, copyVars>>

\* a poll with "counter += 1" indented into the for loop over the events
PollEventsCountingEvents ==
    /\ pc = "poll"
    /\ quit_game' = (quit_game \/ QUIT \in events)
    /\ quit_at' = IF QUIT \in events THEN counter + 1 ELSE quit_at
    /\ events' = {}
    /\ counter' = counter + Cardinality(events)
    /\ pc' = "head"
    /\ UNCHANGED <<board, todo, entry, updates>>
    /\ UNCHANGED <<dimx, dimy, iteration_limit, occupancy, timing, result>>
    /\ UNCHANGED <<countVars, copyVars>>

\* for e in pygame.event.get(): if e.type == QUIT: quit_game = True
\* counter += 1
PollEvents ==
    /\ pc = "poll"
    /\ quit_game' = (quit_game \/ QUIT \in events)
    /\ quit_at' = IF QUIT \in events THEN counter + 1 ELSE quit_at
    /\ events' = {}
    /\ counter' = counter + 1
    /\ pc' = "head"
    /\ UNCHANGED <<board, todo, entry, updates>>
    /\ UNCHANGED <<dimx, dimy, iteration_limit, occupancy, timing, result>>
    /\ UNCHANGED <<countVars, copyVars>>

\* return timing/counter
Return ==
    /\ pc = "ret"
    /\ IF counter = 0
       THEN pc' = "ZeroDivisionError" /\ UNCHANGED result
       ELSE pc' = "done" /\ result' = <<timing, counter>>
    /\ UNCHANGED <<board, todo, entry, updates>>
    /\ UNCHANGED <<dimx, dimy, iteration_limit, occupancy, counter, timing, quit_game,
                   events, quit_at>>
    /\ UNCHANGED <<countVars, copyVars>>

\* the user or the window system puts an event in the pygame queue
PostEvent ==
    /\ pc \in {"make", "head", "mark", "commit", "updated", "draw", "poll"}
    /\ \E e \in EventTypes \ events : events' = events \cup {e}
    /\ UNCHANGED <<pc, board, todo, entry, updates>>
    /\ UNCHANGED <<dimx, dimy, iteration_limit, occupancy, counter, timing, quit_game,
                   result, quit_at>>
    /\ UNCHANGED <<countVars, copyVars>>

Next ==
    \/ PygameInit \/ MakeCell \/ MakeReturn
    \/ LoopEnter \/ LoopExit
    \/ MarkCell \/ MarkDone \/ CommitCell \/ UpdateReturn
    \/ Accumulate \/ DrawBoard \/ PollEvents \/ Return
    \/ PostEvent

Spec == Init /\ [][Next]_vars

\* the steps life() takes itself; events are put in the queue from outside
LifeStep ==
    \/ PygameInit \/ MakeCell \/ MakeReturn
    \/ LoopEnter \/ LoopExit
    \/ MarkCell \/ MarkDone \/ CommitCell \/ UpdateReturn
    \/ Accumulate \/ DrawBoard \/ PollEvents \/ Return

\* life() keeps running: it is one thread that nothing blocks for good
\* (clock.tick and the pygame calls return)
SpecFair == Init /\ [][Next]_vars /\ WF_vars(LifeStep)

(* ------- make_random_board called under any value of OCCUPANCY -------- *)
\* values of the global OCCUPANCY: none, the one the module sets, all
Occupancies == {0, OCCUPANCY, 100}

InitMake ==
    /\ pc = "make"
    /\ dimx \in 0 .. MaxDim
    /\ dimy \in 0 .. MaxDim
    /\ dimx * dimy <= LifeMaxCells
    /\ occupancy \in Occupancies
    /\ iteration_limit = 0
    /\ board = EmptyBoard /\ entry = EmptyBoard /\ todo = {}
    /\ counter = 0 /\ timing = 0 /\ quit_game = FALSE
    /\ events = {}
    /\ result = <<>>
    /\ updates = 0 /\ quit_at = -1
    /\ NoCount /\ NoCopy

NextMake == MakeCell \/ MakeReturn

SpecMake == InitMake /\ [][NextMake]_vars

(* ------------- count_neighbors called on any cell of any board -------- *)
\* boards as update_board can hold them, marks included
MarkedBoards(maxCells) ==
    UNION {[Rect(d[1], d[2]) -> {DEAD, ALIVE, WILL_BORN, WILL_DIE}] :
              d \in Shapes(maxCells)}

InitCount ==
    /\ board \in MarkedBoards(MaxCells)
    /\ entry = board
    /\ todo = {}
    /\ updates = 0
    /\ pc = "count"
    /\ Idle /\ NoCount /\ NoCopy

\* score = count_neighbors(cell, board)
CountNeighbors ==
    /\ pc = "count"
    /\ \E c \in DOMAIN board :
         /\ cell' = c
         /\ score' = count_neighbors(c, board)
    /\ pc' = "counted"
    /\ UNCHANGED <<board, todo, entry, updates>>
    /\ UNCHANGED <<lifeVars, copyVars>>

NextCount == CountNeighbors

SpecCount == InitCount /\ [][NextCount]_vars

(* --------- update_board called on two separate copies of a board ------- *)
InitPair ==
    /\ board \in LiveBoards(PairMaxCells)
    /\ entry = board
    /\ todo = DOMAIN board
    /\ updates = 1
    /\ pc = "mark"
    /\ board2 = board /\ entry2 = board /\ todo2 = {} /\ pc2 = "copied"
    /\ Idle /\ NoCount

\* update_board(board2) is entered, the call on the first copy being over
Enter2 ==
    /\ pc = "updated"
    /\ pc2 = "copied"
    /\ entry2' = board2
    /\ todo2' = DOMAIN board2
    /\ pc2' = "mark"
    /\ UNCHANGED <<board, board2, todo, entry, updates, pc>>
    /\ UNCHANGED <<lifeVars, countVars>>

\* first loop on the second copy, in an order of its own
MarkCell2 ==
    /\ pc2 = "mark"
    /\ \E c \in todo2 :
         /\ board2' = MarkStep(board2, c)
         /\ todo2' = todo2 \ {c}
    /\ UNCHANGED <<pc2, entry2, pc, board, todo, entry, updates>>
    /\ UNCHANGED <<lifeVars, countVars>>

MarkDone2 ==
    /\ pc2 = "mark"
    /\ todo2 = {}
    /\ pc2' = "commit"
    /\ todo2' = DOMAIN board2
    /\ UNCHANGED <<board2, entry2, pc, board, todo, entry, updates>>
    /\ UNCHANGED <<lifeVars, countVars>>

\* second loop on the second copy, in an order of its own
CommitCell2 ==
    /\ pc2 = "commit"
    /\ \E c \in todo2 :
         /\ board2' = CommitStep(board2, c)
         /\ todo2' = todo2 \ {c}
    /\ UNCHANGED <<pc2, entry2, pc, board, todo, entry, updates>>
    /\ UNCHANGED <<lifeVars, countVars>>

UpdateReturn2 ==
    /\ pc2 = "commit"
    /\ todo2 = {}
    /\ pc2' = "updated"
    /\ UNCHANGED <<board2, todo2, entry2, pc, board, todo, entry, updates>>
    /\ UNCHANGED <<lifeVars, countVars>>

\* both calls are over: update_board is called on each copy once more
AgainPair ==
    /\ pc = "updated"
    /\ pc2 = "updated"
    /\ updates < MaxCalls
    /\ EnterUpdate
    /\ pc2' = "copied"
    /\ UNCHANGED <<board, board2, todo2, entry2>>
    /\ UNCHANGED <<lifeVars, countVars>>

NextPair ==
    \/ MarkCell \/ MarkDone \/ CommitCell \/ UpdateReturn
    \/ Enter2 \/ MarkCell2 \/ MarkDone2 \/ CommitCell2 \/ UpdateReturn2
    \/ AgainPair

SpecPair == InitPair /\ [][NextPair]_vars

(* ------------- update_board called twice on a blinker ------------------ *)
\* the 5x3 board with exactly (1,row), (2,row), (3,row) ALIVE
Blinker(row) ==
    [c \in (0 .. 4) \X (0 .. 2) |->
        IF c[2] = row /\ c[1] \in 1 .. 3 THEN ALIVE ELSE DEAD]

\* board2 keeps a copy of the board as it was set up
InitBlinker ==
    /\ board \in {Blinker(0), Blinker(1)}
    /\ entry = board
    /\ todo = DOMAIN board
    /\ updates = 1
    /\ pc = "mark"
    /\ board2 = board /\ entry2 = board /\ todo2 = {} /\ pc2 = "copied"
    /\ Idle /\ NoCount

\* the second update_board call on the blinker
AgainBlinker ==
    /\ pc = "updated"
    /\ updates < 2
    /\ EnterUpdate
    /\ UNCHANGED board
    /\ UNCHANGED <<lifeVars, countVars, copyVars>>

NextBlinker ==
    MarkCell \/ MarkDone \/ CommitCell \/ UpdateReturn \/ AgainBlinker

SpecBlinker == InitBlinker /\ [][NextBlinker]_vars

(* --------- update_board called repeatedly on a 2x2 block --------------- *)
\* the dx x dy board in which exactly the 2x2 block with corner p is ALIVE
BlockAt(dx, dy, p) ==
    [c \in Rect(dx, dy) |->
        IF c[1] \in {p[1], p[1] + 1} /\ c[2] \in {p[2], p[2] + 1}
        THEN ALIVE ELSE DEAD]

\* every board of at least 2x2 cells within the bounds holding one 2x2
\* block, wherever it lies; the 4x3 boards, where a block can lie on an
\* edge away from the corners; the 4x4 board with the block in the interior
BlockBoards ==
    UNION {{BlockAt(d[1], d[2], p) : p \in Rect(d[1] - 1, d[2] - 1)} :
              d \in {e \in Shapes(MaxCells) : e[1] >= 2 /\ e[2] >= 2}}
    \cup {BlockAt(4, 3, p) : p \in Rect(3, 2)}
    \cup {BlockAt(4, 4, <<1, 1>>)}

\* board2 keeps a copy of the board as it was set up
InitBlock ==
    /\ board \in BlockBoards
    /\ entry = board
    /\ todo = DOMAIN board
    /\ updates = 1
    /\ pc = "mark"
    /\ board2 = board /\ entry2 = board /\ todo2 = {} /\ pc2 = "copied"
    /\ Idle /\ NoCount

\* a further update_board call on the same board
AgainBlock ==
    /\ pc = "updated"
    /\ updates < MaxCalls
    /\ EnterUpdate
    /\ UNCHANGED board
    /\ UNCHANGED <<lifeVars, countVars, copyVars>>

NextBlock ==
    MarkCell \/ MarkDone \/ CommitCell \/ UpdateReturn \/ AgainBlock

SpecBlock == InitBlock /\ [][NextBlock]_vars

(* ------------------- reference definitions for the claims -------------- *)
\* the eight coordinates around c
Moore(c) ==
    {k \in ((c[1] - 1) .. (c[1] + 1)) \X ((c[2] - 1) .. (c[2] + 1)) : k # c}

\* number of cells around c that are inside b and in one of the states ss
Around(b, c, ss) == Cardinality({k \in Moore(c) \cap DOMAIN b : b[k] \in ss})

\* the B3/S23 rule applied to cell c of board b, outside counted as dead
ConwayRule(b, c) ==
    LET n == Around(b, c, {ALIVE})
    IN  IF b[c] = ALIVE
        THEN (IF n = 2 \/ n = 3 THEN ALIVE ELSE DEAD)
        ELSE (IF n = 3 THEN ALIVE ELSE DEAD)

(* -------------------------------- C1 ----------------------------------- *)
\* C1: when update_board returns, whatever the order in which its two loops
\* visited the cells, the board has the keys it had on entry and every cell
\* holds the state the B3/S23 rule gives from the board as it was on entry
\* (cells outside the rectangle counted as dead).
C1_UpdateIsConwayRule ==
    pc = "updated" =>
        /\ DOMAIN board = DOMAIN entry
        /\ \A c \in DOMAIN board : board[c] = ConwayRule(entry, c)

\* an update has returned in which a cell was born, one died of isolation,
\* one died of overcrowding and one survived
C1_Witness ==
    /\ pc = "updated"
    /\ \E c \in DOMAIN board : entry[c] = DEAD /\ board[c] = ALIVE
    /\ \E c \in DOMAIN board :
          entry[c] = ALIVE /\ board[c] = DEAD /\ Around(entry, c, {ALIVE}) < 2
    /\ \E c \in DOMAIN board :
          entry[c] = ALIVE /\ board[c] = DEAD /\ Around(entry, c, {ALIVE}) > 3
    /\ \E c \in DOMAIN board : entry[c] = ALIVE /\ board[c] = ALIVE

(* -------------------------------- C2 ----------------------------------- *)
\* C2: in every run of life(), whenever update_board is not running every
\* cell of the board is DEAD or ALIVE (so WILL_BORN and WILL_DIE occur only
\* inside the two loops of one update_board call), and draw_board never
\* meets a state that COLORS lacks.
C2_MarksOnlyInsideUpdate ==
    /\ pc \notin {"mark", "commit"} =>
          \A c \in DOMAIN board : board[c] \in {DEAD, ALIVE}
    /\ pc # "KeyError"

\* draw_board is about to read the board after an update in which one cell
\* was born and another died, so both marks were on the board
C2_Witness ==
    /\ pc = "draw"
    /\ updates >= 1
    /\ \E c \in DOMAIN board : entry[c] = DEAD /\ board[c] = ALIVE
    /\ \E c \in DOMAIN board : entry[c] = ALIVE /\ board[c] = DEAD

(* -------------------------------- C3 ----------------------------------- *)
\* the coordinates of [0,dx) x [0,dy)
InRectangle(dx, dy) ==
    {c \in (-1 .. MaxDim + 1) \X (-1 .. MaxDim + 1) :
        0 <= c[1] /\ c[1] < dx /\ 0 <= c[2] /\ c[2] < dy}

\* C3: for positive dimx and dimy no key outside [0,dimx) x [0,dimy) is ever
\* stored, and from the return of make_random_board on, at every step of
\* every update_board call, the keys of the board are exactly the dimx*dimy
\* coordinates of that rectangle.
C3_KeysAreTheRectangle ==
    (dimx > 0 /\ dimy > 0) =>
        /\ DOMAIN board \subseteq InRectangle(dimx, dimy)
        /\ pc \notin {"init", "make"} =>
              /\ DOMAIN board = InRectangle(dimx, dimy)
              /\ Cardinality(DOMAIN board) = dimx * dimy

\* the second loop of a second update_board call is half way through a
\* 3x2 board that the first loop has marked
C3_Witness ==
    /\ dimx = 3 /\ dimy = 2
    /\ pc = "commit"
    /\ updates = 2
    /\ Cardinality(todo) = 3
    /\ \E c \in DOMAIN board : board[c] \in {WILL_BORN, WILL_DIE}

(* -------------------------------- C5 ----------------------------------- *)
\* C5: whenever life() reaches its return statement the divisor counter is
\* at least 1, so the division never fails.
C5_DivisorAtLeastOne ==
    /\ pc = "ret" => counter >= 1
    /\ pc # "ZeroDivisionError"

C7_CancelOnlyAtBoundary ==
    [][ /\ pc \in {"mark", "commit"} =>
             (pc' \in {"mark", "commit", "updated"} /\ quit_game' = quit_game)
        /\ (pc' = "ret" /\ pc # "ret") => pc = "head"
        /\ quit_game => (updates' = updates /\ pc' \notin {"mark", "commit"})
      ]_vars

\* a QUIT event is waiting while the second loop of update_board is half
\* way through the board
C7_Witness ==
    /\ pc = "commit"
    /\ QUIT \in events
    /\ ~quit_game
    /\ todo # {} /\ todo # DOMAIN board
    /\ counter < iteration_limit

(* -------------------------------- C8 ----------------------------------- *)
\* C8: with dimx <= 0 or dimy <= 0 make_random_board never returns a board
\* and life() never runs an update: the call ends in InvalidDimension.
C8_NonPositiveDimensionRejected ==
    (dimx <= 0 \/ dimy <= 0) =>
        /\ pc \in {"init", "make", "InvalidDimension"}
        /\ updates = 0

(* -------------------------------- C4 ----------------------------------- *)
\* C4: for every board over a rectangle with states among DEAD, ALIVE,
\* WILL_BORN and WILL_DIE and every cell of it, count_neighbors returns a
\* value in 0..8 equal to the number of the eight coordinates around the
\* cell that are keys of the board and hold ALIVE or WILL_DIE (coordinates
\* outside the rectangle add nothing), and leaves the board as it was.
C4_CountIsOccupiedMooreNeighbours ==
    pc = "counted" =>
        /\ score \in 0 .. 8
        /\ score = Around(board, cell, {ALIVE, WILL_DIE})
        /\ board = entry

\* count_neighbors has returned 8 for the middle of a 3x3 board, and a
\* corner, with coordinates around it outside the board, holds WILL_BORN
C4_Witness ==
    /\ pc = "counted"
    /\ cell = <<1, 1>>
    /\ score = 8
    /\ board[<<0, 0>>] = WILL_DIE
    /\ board[<<1, 1>>] = WILL_BORN

(* -------------------------------- C9 ----------------------------------- *)
\* C9: update_board run on two separate copies of a board of DEAD and ALIVE
\* cells, each copy visited in an order of its own, leaves the two copies
\* equal, and so does every further pair of calls.
C9_CopiesAgree ==
    (pc = "updated" /\ pc2 = "updated") => board2 = board

\* both copies have been updated twice and each update changed the board
C9_Witness ==
    /\ pc = "updated" /\ pc2 = "updated"
    /\ updates = 2
    /\ board # entry
    /\ \E c \in DOMAIN board : board[c] = ALIVE

(* -------------------------------- C10 ---------------------------------- *)
\* the cells of b that are ALIVE
AliveCells(b) == {c \in DOMAIN b : b[c] = ALIVE}

OnlyDeadOrAlive(b) == \A c \in DOMAIN b : b[c] \in {DEAD, ALIVE}

\* C10 as stated: with (1,0), (2,0), (3,0) ALIVE on the 5x3 board, one
\* update_board call leaves live cells in column 2 only and a second call
\* gives back the board as it was set up.
C10_EdgeBlinkerOscillates ==
    (board2 = Blinker(0) /\ pc = "updated") =>
        /\ updates = 1 => \A c \in AliveCells(board) : c[1] = 2
        /\ updates = 2 => board = board2

\* C10 amended: with (1,1), (2,1), (3,1) ALIVE on the 5x3 board, one
\* update_board call leaves exactly (2,0), (2,1), (2,2) ALIVE and a second
\* call gives back the board as it was set up; with (1,0), (2,0), (3,0)
\* ALIVE the first call leaves exactly (2,0), (2,1) ALIVE and the second
\* leaves every cell DEAD.
C10_BlinkerOscillatesOffTheEdge ==
    pc = "updated" =>
        /\ OnlyDeadOrAlive(board)
        /\ (board2 = Blinker(1) /\ updates = 1) =>
              AliveCells(board) = {<<2, 0>>, <<2, 1>>, <<2, 2>>}
        /\ (board2 = Blinker(1) /\ updates = 2) => board = board2
        /\ (board2 = Blinker(0) /\ updates = 1) =>
              AliveCells(board) = {<<2, 0>>, <<2, 1>>}
        /\ (board2 = Blinker(0) /\ updates = 2) => AliveCells(board) = {}

\* the second update_board call on the blinker of the middle row has
\* returned, after a first call that had turned it upright
C10_Witness ==
    /\ pc = "updated"
    /\ updates = 2
    /\ board2 = Blinker(1)
    /\ AliveCells(entry) = {<<2, 0>>, <<2, 1>>, <<2, 2>>}
    /\ AliveCells(board) = {<<1, 1>>, <<2, 1>>, <<3, 1>>}

(* -------------------------------- C11 ---------------------------------- *)
\* C11: on every board of at least 2x2 cells in which exactly the four
\* cells of one 2x2 block are ALIVE, wherever the block lies, every
\* update_board call, the first and each further one, returns with the
\* board as it was set up.
C11_BlockIsStill ==
    pc = "updated" => board = board2

\* a second update_board call has returned on the 4x4 board whose block
\* lies in the interior
C11_Witness ==
    /\ pc = "updated"
    /\ updates >= 2
    /\ DOMAIN board = (0 .. 3) \X (0 .. 3)
    /\ AliveCells(board) = {<<1, 1>>, <<1, 2>>, <<2, 1>>, <<2, 2>>}

(* -------------------------------- C12 ---------------------------------- *)
\* C12: whatever value in [0,1) random.random() returns at each cell, the
\* board make_random_board returns has every cell DEAD when the occupancy
\* is 0, every cell ALIVE when the occupancy is 1, and every cell DEAD or
\* ALIVE whatever the occupancy.
C12_OccupancyExtremes ==
    pc = "head" =>
        /\ occupancy = 0 => \A c \in DOMAIN board : board[c] = DEAD
        /\ occupancy = 100 => \A c \in DOMAIN board : board[c] = ALIVE
        /\ \A c \in DOMAIN board : board[c] \in {DEAD, ALIVE}

\* make_random_board has returned a 3x2 board under occupancy 1
C12_Witness ==
    /\ pc = "head"
    /\ occupancy = 100
    /\ dimx = 3 /\ dimy = 2
    /\ Cardinality(DOMAIN board) = 6
    /\ \A c \in DOMAIN board : board[c] = ALIVE

(* -------------------------------- C13 ---------------------------------- *)
\* C13: at every point of the first loop of update_board, whichever cells
\* it has visited so far, count_neighbors gives for every cell the number
\* of cells around it that were ALIVE on entry, and every cell either holds
\* its entry state, or WILL_BORN having been DEAD on entry, or WILL_DIE
\* having been ALIVE on entry.
C13_MarksKeepTheCounts ==
    pc = "mark" =>
        \A c \in DOMAIN board :
            /\ count_neighbors(c, board) = Around(entry, c, {ALIVE})
            /\ \/ board[c] = entry[c]
               \/ board[c] = WILL_BORN /\ entry[c] = DEAD
               \/ board[c] = WILL_DIE /\ entry[c] = ALIVE

\* the first loop is part way through a board on which it has marked one
\* cell for birth and one for death, next to a cell it has yet to visit
C13_Witness ==
    /\ pc = "mark"
    /\ \E c \in todo :
          /\ \E k \in Moore(c) \cap (DOMAIN board \ todo) : board[k] = WILL_BORN
          /\ \E k \in Moore(c) \cap (DOMAIN board \ todo) : board[k] = WILL_DIE
          /\ board[c] = ALIVE

(* -------------------------------- C14 ---------------------------------- *)
\* cell c of board b is DEAD with a live-neighbour count other than 3, or
\* ALIVE with a live-neighbour count of 2 or 3
Settled(b, c) ==
    LET n == Around(b, c, {ALIVE})
    IN  \/ b[c] = DEAD /\ n # 3
        \/ b[c] = ALIVE /\ (n = 2 \/ n = 3)

\* C14: a cell that on entry is DEAD with a live-neighbour count other than
\* 3, or ALIVE with a count of 2 or 3, holds its entry state at every step
\* of both loops of update_board and on return; and a step of the second
\* loop changes a cell only from WILL_BORN to ALIVE or from WILL_DIE to
\* DEAD, leaving every DEAD or ALIVE cell as it is.
C14_UpdateFrame ==
    /\ [](\A c \in DOMAIN board : Settled(entry, c) => board[c] = entry[c])
    /\ [][pc = "commit" =>
            \A c \in DOMAIN board :
                \/ board'[c] = board[c]
                \/ board[c] = WILL_BORN /\ board'[c] = ALIVE
                \/ board[c] = WILL_DIE /\ board'[c] = DEAD]_vars

\* update_board has returned having changed two cells, one each way, and
\* having left alone a live cell and a dead cell that has live neighbours
C14_Witness ==
    /\ pc = "updated"
    /\ \E c \in DOMAIN board : entry[c] = DEAD /\ board[c] = ALIVE
    /\ \E c \in DOMAIN board : entry[c] = ALIVE /\ board[c] = DEAD
    /\ \E c \in DOMAIN board :
          entry[c] = ALIVE /\ Settled(entry, c) /\ board[c] = ALIVE
    /\ \E c \in DOMAIN board :
          /\ entry[c] = DEAD /\ Settled(entry, c) /\ board[c] = DEAD
          /\ Around(entry, c, {ALIVE}) > 3

(* -------------------------------- C15 ---------------------------------- *)
\* number of columns and of rows of board b
Columns(b) == Cardinality({c[1] : c \in DOMAIN b})
Rows(b) == Cardinality({c[2] : c \in DOMAIN b})

OnBorder(b, c) ==
    c[1] \in {0, Columns(b) - 1} \/ c[2] \in {0, Rows(b) - 1}

AtCorner(b, c) ==
    c[1] \in {0, Columns(b) - 1} /\ c[2] \in {0, Rows(b) - 1}

\* C15: on every board of at least 2x2 cells, whatever the states of its
\* cells, count_neighbors returns at most 3 for a corner cell and at most 5
\* for a cell on the border that is not a corner.
C15_BorderCounts ==
    (pc = "counted" /\ Columns(board) >= 2 /\ Rows(board) >= 2) =>
        /\ AtCorner(board, cell) => score <= 3
        /\ (OnBorder(board, cell) /\ ~AtCorner(board, cell)) => score <= 5

\* count_neighbors has returned 5 for a border cell of a 3x3 board that is
\* not a corner, three corners of the board being occupied too
C15_Witness ==
    /\ pc = "counted"
    /\ Columns(board) = 3 /\ Rows(board) = 3
    /\ cell = <<1, 0>>
    /\ score = 5
    /\ board[<<0, 0>>] = ALIVE /\ board[<<2, 0>>] = WILL_DIE
    /\ board[<<1, 2>>] = ALIVE

(* -------------------------------- C16 ---------------------------------- *)
\* C16: in the loop of life() no step between the return of one
\* update_board call and the start of the next (the timing, draw_board and
\* the display flip, the event poll and the counter, the while test), nor
\* the return of life(), changes the key set of the board or the state of
\* any cell.
C16_OnlyUpdateWritesBoard ==
    [][ (pc \in {"updated", "draw", "poll", "head", "ret"}) => (board' = board)
      ]_vars

\* the while test is about to start a third update on a board that has
\* live cells, the board having been drawn twice and the queue polled twice
C16_Witness ==
    /\ pc = "head"
    /\ counter = 2
    /\ updates = 2
    /\ LoopCond(quit_game, counter, iteration_limit)
    /\ AliveCells(board) # {}

(* -------------------------------- C17 ---------------------------------- *)
\* C17: for every iteration_limit, life() eventually leaves its loop and
\* returns, whether or not a QUIT event is ever seen.
C17_EventuallyReturns == <>(pc = "done")

\* life() eventually leaves its loop and ends, by returning or by raising
LifeEnds == <>(pc \in {"done", "ZeroDivisionError"})

(* -------------------------------- C18 ---------------------------------- *)
\* C18: at the while test of life() and at its return statement counter is
\* the number of update_board calls made and completed so far, so the
\* divisor of the average life() returns is the number of updates whose
\* time went into timing.
C18_CounterIsUpdateCount ==
    /\ pc \in {"head", "ret", "done", "ZeroDivisionError"} =>
          /\ counter = updates
          /\ timing \in 0 .. (updates * MaxElapsed)
    /\ pc = "done" => result = <<timing, updates>>

\* life() has returned after three updates that took time
C18_Witness ==
    /\ pc = "done"
    /\ updates = 3
    /\ result[2] = 3
    /\ result[1] >= 2

====
